---- MODULE Spec2Model ----
(***************************************************************************)
(* A model of two of the repository's scripts.                             *)
(*                                                                         *)
(*   q1_ai_lab_test.py   the genetic algorithm for OneMax (run_ga and its  *)
(*                       operators), specifications Spec and SpecDet       *)
(*   q2_ai_lab_test_.py  the rule engine (run_rules), specification        *)
(*                       SpecRules                                         *)
(*                                                                         *)
(* Arrays are modelled with their storage: a genome handed around by the   *)
(* script is a reference, either a view of a row of the population array   *)
(* (<<"pop", i>>, i the 0-based row) or an array of its own in the heap    *)
(* (<<"obj", k>>).  Writing through a reference changes what it refers to. *)
(*                                                                         *)
(* The generator np.random.default_rng(SEED) is a fixed but unknown        *)
(* function of the number of draws made since seeding.  tape holds the     *)
(* part of that function revealed so far and pos the number of draws made  *)
(* since the generator was last seeded: a draw at a position the tape      *)
(* already covers returns the recorded value, any other draw is arbitrary  *)
(* in its domain and is recorded.                                          *)
(*                                                                         *)
(* Probabilities and uniform draws are in hundredths (PC = 0.9 is 90).     *)
(* Sizes below zero are not modelled.  Line 11 of q1 carries a stray token *)
(* after MAX_FITNESS = 80; MAX_FITNESS is not used by any function.        *)
(***************************************************************************)
EXTENDS Integers, Sequences, FiniteSets, TLC

VARIABLES
    cfg,             \* the module constants POP_SIZE .. TOUR_K of q1
    tape, pos,       \* rng: the revealed stream and the position in it
    seeded,          \* the run began on the generator as the module body seeded it
    pc,              \* position of q1's control
    population, fit, history, gen, elites, new_population,
    parent1, parent2, child1, child2,    \* locals of run_ga (references)
    heap,            \* arrays allocated since the generation began
    call,            \* the last operator call: its arguments and what it returned
    results,         \* what each completed run_ga returned
    facts, rules, rpc, action, matched_rules   \* q2: run_rules and its caller

gaVars == <<cfg, tape, pos, seeded, pc, population, fit, history, gen, elites,
            new_population, parent1, parent2, child1, child2, heap, call, results>>
ruleVars == <<facts, rules, rpc, action, matched_rules>>
vars == <<gaVars, ruleVars>>

\* ------------------------------------------------------------------ bounds

\* generations of the configurations that run more than one
MaxGen == 2
\* run_ga calls in one behaviour of SpecDet
MaxRuns == 2
\* rules in a generated rule list
MaxRules == 3

\* ------------------------------------------------------------- arithmetic

RECURSIVE Sum(_)
Sum(s) == IF Len(s) = 0 THEN 0 ELSE s[1] + Sum(Tail(s))

Max(s) == CHOOSE m \in {s[i] : i \in 1..Len(s)} : \A i \in 1..Len(s) : s[i] <= m

\* np.argmax: the 0-based index of the first maximum
argmax(s) ==
    CHOOSE i \in 0..(Len(s) - 1) :
        /\ \A j \in 0..(Len(s) - 1) : s[j + 1] <= s[i + 1]
        /\ \A j \in 0..(i - 1) : s[j + 1] < s[i + 1]

\* np.argsort: 0-based indices in ascending order of value, equal values in
\* index order.  (The order numpy gives equal values is a fixed function of the
\* array, stable or not; it decides only which of equally fit genomes are the
\* elites.)
argsort(s) ==
    LET n == Len(s)
        rank(i) == Cardinality({j \in 1..n : s[j] < s[i] \/ (s[j] = s[i] /\ j < i)})
    IN  [r \in 1..n |-> (CHOOSE i \in 1..n : rank(i) = r - 1) - 1]

\* Python's s[-e:] for e >= 0: -0 is 0, so s[-0:] is all of s
LastSlice(s, e) ==
    IF e = 0 \/ e >= Len(s) THEN s ELSE SubSeq(s, Len(s) - e + 1, Len(s))

\* Python's a[lo:hi] for 0 <= lo, hi <= len(a)
Slice(a, lo, hi) == SubSeq(a, lo + 1, hi)

\* ---------------------------------------------------------- configuration

Cfg(n, l, g, c, m, e, k) ==
    [POP_SIZE |-> n, GENE_LENGTH |-> l, MAX_GEN |-> g, PC |-> c, PM |-> m,
     ELITE |-> e, TOUR_K |-> k]

\* the source's PC, PM and ELITE with the sizes scaled down, and around them
\* the corners of the parameter space, valid and invalid
Configs ==
    { Cfg(2, 2, MaxGen, 90, 1, 1, 1),     \* several generations, N - E odd
      Cfg(2, 2, 1, 90, 1, 1, 2),          \* K = N
      Cfg(3, 2, 1, 90, 1, 1, 2),          \* 1 < K < N, N - E even
      Cfg(2, 3, 1, 100, 0, 1, 1),         \* Pc = 1, Pm = 0, two cut positions
      Cfg(2, 3, 1, 0, 100, 1, 2),         \* Pc = 0, Pm = 1
      Cfg(2, 2, 1, 90, 1, 0, 1),          \* E = 0
      Cfg(2, 1, 1, 90, 1, 1, 1),          \* L = 1
      Cfg(2, 2, 1, 90, 1, 1, 3),          \* K > N
      Cfg(2, 2, 1, 90, 1, 1, 0),          \* K = 0
      Cfg(2, 2, 1, 90, 1, 2, 1),          \* E = N
      Cfg(2, 2, 1, 150, 1, 1, 1),         \* Pc > 1
      Cfg(2, 2, 1, 90, 0 - 50, 1, 1),     \* Pm < 0
      Cfg(0, 2, 1, 90, 1, 0, 1),          \* N = 0
      Cfg(2, 0, 1, 90, 1, 1, 1) }         \* L = 0

\* the configurations whose runs are repeated: the smallest with a mutation
\* that matters and the smallest with a crossover
DetConfigs ==
    { Cfg(2, 1, 1, 0, 1, 1, 2),
      Cfg(1, 2, 1, 90, 1, 0, 1) }

\* ------------------------------------------------------------ the generator

\* rng.random(): a float of [0, 1), in hundredths
U == {0, 99}

\* rng.integers(0, 2, size=(n, l))
InitDomain(n, l) == [1..n -> [1..l -> {0, 1}]]

\* rng.choice(n, k, replace=False) for 1 <= k <= n: k distinct indices, in draw order
ChoiceDomain(n, k) ==
    {s \in [1..k -> 0..(n - 1)] : \A i, j \in 1..k : i < j => s[i] # s[j]}

\* rng.integers(1, l, 2) for l >= 2: two values of 1..l-1, drawn independently
CutDomain(l) == [1..2 -> 1..(l - 1)]

\* rng.random(l)
MaskDomain(l) == [1..l -> U]

\* the values the draw k draws after this one may return
Draws(k, D) == IF pos + k < Len(tape) THEN {tape[pos + k + 1]} ELSE D

\* the generator after it returned the values vs, in this order
Consumed(vs) ==
    /\ pos' = pos + Len(vs)
    /\ tape' = IF pos + Len(vs) <= Len(tape) THEN tape ELSE SubSeq(tape, 1, pos) \o vs

\* np.random.default_rng(SEED): the position of a generator just seeded
default_rng_unseeded(t) == Len(t)
default_rng(t) == 0

\* ---------------------------------------------------------------- storage

Deref(pop, h, r) == IF r[1] = "pop" THEN pop[r[2] + 1] ELSE h[r[2]]

PopStore(pop, r, v) == IF r[1] = "pop" THEN [pop EXCEPT ![r[2] + 1] = v] ELSE pop

HeapStore(h, r, v) == IF r[1] = "obj" THEN [h EXCEPT ![r[2]] = v] ELSE h

None == <<"none", 0>>

\* ------------------------------------------------------------ q1 operators

\* fitness(pop): np.sum(pop, axis=1)
fitness(pop) == [i \in 1..Len(pop) |-> Sum(pop[i])]

\* tournament_selection(pop, fit) once rng.choice returned candidates: a view
\* of the row of the first candidate whose fitness is the largest
tournament_selection_last(f, candidates) ==
    LET fc == [j \in 1..Len(candidates) |-> f[candidates[j] + 1]]
        r  == [j \in 1..Len(fc) |-> fc[Len(fc) + 1 - j]]
    IN  <<"pop", candidates[Len(fc) - argmax(r)]>>
tournament_selection(f, candidates) ==
    LET fc == [j \in 1..Len(candidates) |-> f[candidates[j] + 1]]
    IN  <<"pop", candidates[argmax(fc) + 1]>>

\* np.argsort(fit)[-ELITE:]
elite_idx_lowest(f) == SubSeq(argsort(f), 1, cfg.ELITE)
elite_idx(f) == LastSlice(argsort(f), cfg.ELITE)

\* sorted() of a pair
sorted(p) == IF p[1] <= p[2] THEN <<p[1], p[2]>> ELSE <<p[2], p[1]>>

\* crossover(p1, p2) once rng.random() returned u and, on the crossover branch,
\* rng.integers returned pts: both children are arrays of their own
\* (np.concatenate, .copy()).  r1, r2 refer to the parents, whose bits are a, b.
crossover_unsorted(h, r1, r2, a, b, u, pts) ==
    LET L  == Len(a)
        c1 == IF u < cfg.PC
              THEN Slice(a, 0, pts[1]) \o Slice(b, pts[1], pts[2]) \o Slice(a, pts[2], L)
              ELSE a
        c2 == IF u < cfg.PC
              THEN Slice(b, 0, pts[1]) \o Slice(a, pts[1], pts[2]) \o Slice(b, pts[2], L)
              ELSE b
    IN  [heap |-> h \o <<c1, c2>>,
         c1 |-> <<"obj", Len(h) + 1>>, c2 |-> <<"obj", Len(h) + 2>>,
         crossed |-> u < cfg.PC,
         cuts |-> IF u < cfg.PC THEN pts ELSE <<>>]
crossover_nocopy(h, r1, r2, a, b, u, pts) ==
    LET L  == Len(a)
        p  == sorted(pts)
        c1 == Slice(a, 0, p[1]) \o Slice(b, p[1], p[2]) \o Slice(a, p[2], L)
        c2 == Slice(b, 0, p[1]) \o Slice(a, p[1], p[2]) \o Slice(b, p[2], L)
    IN  IF u < cfg.PC
        THEN [heap |-> h \o <<c1, c2>>,
              c1 |-> <<"obj", Len(h) + 1>>, c2 |-> <<"obj", Len(h) + 2>>,
              crossed |-> TRUE, cuts |-> p]
        ELSE [heap |-> h, c1 |-> r1, c2 |-> r2, crossed |-> FALSE, cuts |-> <<>>]
crossover(h, r1, r2, a, b, u, pts) ==
    LET L  == Len(a)
        p  == sorted(pts)
        c1 == IF u < cfg.PC
              THEN Slice(a, 0, p[1]) \o Slice(b, p[1], p[2]) \o Slice(a, p[2], L)
              ELSE a
        c2 == IF u < cfg.PC
              THEN Slice(b, 0, p[1]) \o Slice(a, p[1], p[2]) \o Slice(b, p[2], L)
              ELSE b
    IN  [heap |-> h \o <<c1, c2>>,
         c1 |-> <<"obj", Len(h) + 1>>, c2 |-> <<"obj", Len(h) + 2>>,
         crossed |-> u < cfg.PC,
         cuts |-> IF u < cfg.PC THEN p ELSE <<>>]

\* mutation(child) once rng.random(GENE_LENGTH) returned us: the bits of child
\* after child[flip] ^= 1, written through the reference
mutation_bits_inclusive(b, us) ==
    [i \in 1..Len(b) |-> IF us[i] <= cfg.PM THEN 1 - b[i] ELSE b[i]]
mutation_bits(b, us) ==
    [i \in 1..Len(b) |-> IF us[i] < cfg.PM THEN 1 - b[i] ELSE b[i]]

\* for gen in range(MAX_GEN): the loop is over
range_done_converged(g, pop) ==
    g >= cfg.MAX_GEN \/ \E i \in 1..Len(pop) : Sum(pop[i]) = cfg.GENE_LENGTH
range_done(g, pop) == g >= cfg.MAX_GEN

\* np.vstack([new_population, elites]): an empty list is a (1, 0) array
vstack(rows, el) == (IF Len(rows) = 0 THEN << <<>> >> ELSE rows) \o el

\* ------------------------------------------------------------- q1 actions

NoCall == [op |-> "none"]

\* run_ga() up to the loop: init_population()
RunGAStart ==
    /\ \E v \in Draws(0, InitDomain(cfg.POP_SIZE, cfg.GENE_LENGTH)) :
          /\ population' = v
          /\ Consumed(<<v>>)
    /\ history' = <<>>
    /\ gen' = 0
    /\ fit' = <<>>
    /\ elites' = <<>>
    /\ new_population' = <<>>
    /\ heap' = <<>>
    /\ parent1' = None /\ parent2' = None /\ child1' = None /\ child2' = None
    /\ call' = NoCall
    /\ pc' = "loop"
    /\ UNCHANGED <<cfg, ruleVars>>

\* the button: run_ga() in a script that has just run its module body
CallRunGA ==
    /\ pc = "idle"
    /\ UNCHANGED <<seeded, results>>
    /\ RunGAStart

\* the loop body up to the while loop: evaluation, the history record, the elites
Generation ==
    /\ pc = "loop"
    /\ ~range_done(gen, population)
    /\ LET f == fitness(population) IN
       /\ fit' = f
       /\ IF Len(f) = 0
          THEN /\ pc' = "error"        \* fit.max() of an empty array
               /\ UNCHANGED <<history, elites, new_population, heap, call>>
          ELSE /\ history' = Append(history,
                      [Generation |-> gen + 1, Best |-> Max(f),
                       Average |-> <<Sum(f), Len(f)>>])
               /\ elites' = [i \in 1..Len(elite_idx(f)) |-> population[elite_idx(f)[i] + 1]]
               /\ new_population' = <<>>
               /\ heap' = <<>>
               /\ call' = NoCall
               /\ pc' = "sel1"
    /\ UNCHANGED <<cfg, tape, pos, seeded, population, gen, parent1, parent2,
                   child1, child2, results, ruleVars>>

\* the while loop's test fails: population = np.vstack([new_population, elites])
Replace ==
    /\ pc = "sel1"
    /\ ~(Len(new_population) < cfg.POP_SIZE - cfg.ELITE)
    /\ IF Len(new_population) = 0 /\ cfg.GENE_LENGTH # 0
       THEN /\ pc' = "error"           \* (1, 0) does not stack on (n, L)
            /\ UNCHANGED <<population, gen>>
       ELSE /\ population' =
                 vstack([i \in 1..Len(new_population) |->
                            Deref(population, heap, new_population[i])], elites)
            /\ gen' = gen + 1
            /\ pc' = "loop"
    /\ UNCHANGED <<cfg, tape, pos, seeded, fit, history, elites, new_population, heap,
                   parent1, parent2, child1, child2, call, results, ruleVars>>

\* parent1 = tournament_selection(population, fit), then parent2 likewise
TournamentSelection ==
    /\ pc \in {"sel1", "sel2"}
    /\ pc = "sel1" => Len(new_population) < cfg.POP_SIZE - cfg.ELITE
    /\ IF cfg.TOUR_K < 1 \/ cfg.TOUR_K > Len(population)
       THEN /\ pc' = "error"           \* rng.choice or np.argmax raises
            /\ UNCHANGED <<tape, pos, parent1, parent2, call>>
       ELSE \E candidates \in Draws(0, ChoiceDomain(Len(population), cfg.TOUR_K)) :
               LET r == tournament_selection(fit, candidates) IN
               /\ Consumed(<<candidates>>)
               /\ parent1' = IF pc = "sel1" THEN r ELSE parent1
               /\ parent2' = IF pc = "sel2" THEN r ELSE parent2
               /\ call' = [op |-> "tournament_selection", pop |-> population,
                           fit |-> fit, candidates |-> candidates, ret |-> r]
               /\ pc' = IF pc = "sel1" THEN "sel2" ELSE "cross"
    /\ UNCHANGED <<cfg, seeded, population, fit, history, gen, elites,
                   new_population, child1, child2, heap, results, ruleVars>>

\* child1, child2 = crossover(parent1, parent2)
Crossover ==
    /\ pc = "cross"
    /\ \E u \in Draws(0, U) :
          LET a == Deref(population, heap, parent1)
              b == Deref(population, heap, parent2)
          IN
          IF u < cfg.PC /\ cfg.GENE_LENGTH <= 1
          THEN /\ pc' = "error"        \* rng.integers(1, L, 2) with low >= high
               /\ Consumed(<<u>>)
               /\ UNCHANGED <<child1, child2, heap, call>>
          ELSE \E pts \in (IF u < cfg.PC THEN Draws(1, CutDomain(cfg.GENE_LENGTH))
                                       ELSE {<<>>}) :
                  LET c == crossover(heap, parent1, parent2, a, b, u, pts) IN
                  /\ Consumed(IF u < cfg.PC THEN <<u, pts>> ELSE <<u>>)
                  /\ heap' = c.heap
                  /\ child1' = c.c1
                  /\ child2' = c.c2
                  /\ call' = [op |-> "crossover", a |-> a, b |-> b, u |-> u,
                              crossed |-> c.crossed, cuts |-> c.cuts,
                              c1 |-> Deref(population, c.heap, c.c1),
                              c2 |-> Deref(population, c.heap, c.c2)]
                  /\ pc' = "mut1"
    /\ UNCHANGED <<cfg, seeded, population, fit, history, gen, elites,
                   new_population, parent1, parent2, results, ruleVars>>

\* new_population.append(mutation(child1)), and mutation(child2) when the pool
\* is still short
Mutation ==
    /\ pc \in {"mut1", "mut2"}
    /\ LET child == IF pc = "mut1" THEN child1 ELSE child2
           before == Deref(population, heap, child)
       IN
       \E us \in Draws(0, MaskDomain(cfg.GENE_LENGTH)) :
          LET after == mutation_bits(before, us) IN
          /\ Consumed(<<us>>)
          /\ population' = PopStore(population, child, after)
          /\ heap' = HeapStore(heap, child, after)
          /\ new_population' = Append(new_population, child)
          /\ call' = [op |-> "mutation", arg |-> child, before |-> before,
                      us |-> us, ret |-> child]
          /\ pc' = IF pc = "mut1" /\ Len(new_population') < cfg.POP_SIZE - cfg.ELITE
                   THEN "mut2" ELSE "sel1"
    /\ UNCHANGED <<cfg, seeded, fit, history, gen, elites, parent1, parent2,
                   child1, child2, results, ruleVars>>

\* after the loop: the best genome of the final population
Return ==
    /\ pc = "loop"
    /\ range_done(gen, population)
    /\ LET final_fit == fitness(population)
           best_index == argmax(final_fit)
       IN
       IF Len(final_fit) = 0
       THEN pc' = "error" /\ results' = results
       ELSE /\ results' = Append(results,
                   [seeded |-> seeded, history |-> history,
                    best |-> population[best_index + 1],
                    fitness |-> final_fit[best_index + 1]])
            /\ pc' = "done"
    /\ UNCHANGED <<cfg, tape, pos, seeded, population, fit, history, gen, elites,
                   new_population, parent1, parent2, child1, child2, heap, call,
                   ruleVars>>

\* the script is run again (every interaction re-executes the module body):
\* rng = np.random.default_rng(SEED)
Rerun ==
    /\ pc \in {"done", "error"}
    /\ Len(results) < MaxRuns
    /\ pos' = default_rng(tape)
    /\ seeded' = TRUE
    /\ pc' = "idle"
    /\ UNCHANGED <<cfg, tape, population, fit, history, gen, elites, new_population,
                   parent1, parent2, child1, child2, heap, call, results, ruleVars>>

\* run_ga() called once more by a caller that holds the module
CallAgain ==
    /\ pc = "done"
    /\ Len(results) < MaxRuns
    /\ seeded' = FALSE
    /\ results' = results
    /\ RunGAStart

\* ---------------------------------------------------------- q2: the rules

OPS == {"==", "!=", ">", ">=", "<", "<="}

\* OPS[op](x, y)
ApplyOp(op, x, y) ==
    CASE op = "==" -> x = y
      [] op = "!=" -> x # y
      [] op = ">"  -> x > y
      [] op = ">=" -> x >= y
      [] op = "<"  -> x < y
      [] op = "<=" -> x <= y

Rule(n, p, c, a) == [name |-> n, priority |-> p, conditions |-> c, action |-> a]

Act(m, f, sp, r) == [mode |-> m, fan_speed |-> f, setpoint |-> sp, reason |-> r]

DEFAULT_RULES ==
    << Rule("Windows open -> AC OFF", 110, << <<"windows_open", "==", TRUE>> >>,
            Act("OFF", "AUTO", "None", "Cooling disabled because windows are open")),
       Rule("Empty house -> Eco mode", 95,
            << <<"occupancy", "==", "EMPTY">>, <<"temperature", ">=", 24>> >>,
            Act("ECO", "LOW", 27, "No occupants, energy saving activated")),
       Rule("Hot & humid while occupied", 85,
            << <<"occupancy", "==", "OCCUPIED">>, <<"temperature", ">=", 30>>,
               <<"humidity", ">=", 70>> >>,
            Act("COOL", "HIGH", 23, "High temperature and humidity detected")),
       Rule("Hot while occupied", 75,
            << <<"occupancy", "==", "OCCUPIED">>, <<"temperature", ">=", 28>> >>,
            Act("COOL", "MEDIUM", 24, "High temperature detected")),
       Rule("Warm while occupied", 65,
            << <<"occupancy", "==", "OCCUPIED">>, <<"temperature", ">=", 26>>,
               <<"temperature", "<", 28>> >>,
            Act("COOL", "LOW", 25, "Moderately warm environment")),
       Rule("Night comfort mode", 80,
            << <<"occupancy", "==", "OCCUPIED">>, <<"time_of_day", "==", "NIGHT">>,
               <<"temperature", ">=", 26>> >>,
            Act("SLEEP", "LOW", 26, "Night-time comfort optimization")),
       Rule("Too cold -> system OFF", 90, << <<"temperature", "<=", 22>> >>,
            Act("OFF", "AUTO", "None", "Temperature already low")) >>

\* the action run_rules returns when no rule matches
NoRuleAction == Act("OFF", "AUTO", "None", "No rule satisfied")

\* the facts the dashboard builds from its widgets
UIFacts ==
    [temperature : {22, 23, 26, 28, 30}, humidity : {50, 70},
     occupancy : {"OCCUPIED", "EMPTY"},
     time_of_day : {"DAY", "AFTERNOON", "EVENING", "NIGHT"},
     windows_open : BOOLEAN]

\* rule lists and fact sets other callers may pass: integer facts, some of
\* them missing, and rules that tie on priority
Fields == {"temperature", "humidity"}

GenFacts == UNION {[S -> {0, 1}] : S \in SUBSET Fields}

GenRules ==
    { Rule("A", 2, << <<"temperature", ">=", 1>> >>, "a"),
      Rule("B", 2, << <<"humidity", "==", 0>> >>, "b"),
      Rule("C", 2, <<>>, "c"),
      Rule("D", 3, << <<"temperature", ">", 0>>, <<"humidity", "<", 1>> >>, "d"),
      Rule("E", 1, << <<"temperature", "!=", 1>> >>, "e"),
      Rule("F", 3, << <<"humidity", "=<", 1>> >>, "f") }

GenRuleLists == UNION {[1..n -> GenRules] : n \in 0..MaxRules}

evaluate_condition(fs, cond) ==
    LET field == cond[1]
        op    == cond[2]
        value == cond[3]
    IN  IF field \notin DOMAIN fs \/ op \notin OPS
        THEN FALSE
        ELSE ApplyOp(op, fs[field], value)

\* all(...): the conditions are evaluated in order, up to the first false one
RECURSIVE all_conditions(_, _)
all_conditions(fs, conds) ==
    IF Len(conds) = 0 THEN TRUE
    ELSE IF ~evaluate_condition(fs, conds[1]) THEN FALSE
    ELSE all_conditions(fs, Tail(conds))

rule_matches(fs, rule) == all_conditions(fs, rule.conditions)

\* [r for r in rules if rule_matches(facts, r)]
RECURSIVE matching(_, _)
matching(fs, rs) ==
    IF Len(rs) = 0 THEN <<>>
    ELSE (IF rule_matches(fs, rs[1]) THEN <<rs[1]>> ELSE <<>>) \o matching(fs, Tail(rs))

\* list.sort(key=lambda r: r["priority"], reverse=True): stable, so rules of
\* equal priority keep their order
sort_by_priority_then_reversed(rs) ==
    LET n == Len(rs)
        rank(i) == Cardinality({j \in 1..n :
                       \/ rs[j].priority > rs[i].priority
                       \/ (rs[j].priority = rs[i].priority /\ j > i)})
    IN  [r \in 1..n |-> rs[CHOOSE i \in 1..n : rank(i) = r - 1]]
sort_by_priority(rs) ==
    LET n == Len(rs)
        rank(i) == Cardinality({j \in 1..n :
                       \/ rs[j].priority > rs[i].priority
                       \/ (rs[j].priority = rs[i].priority /\ j < i)})
    IN  [r \in 1..n |-> rs[CHOOSE i \in 1..n : rank(i) = r - 1]]

\* run_rules(facts, rules): <<action, matched_rules>>
run_rules(fs, rs) ==
    LET m == matching(fs, rs) IN
    IF Len(m) = 0
    THEN <<NoRuleAction, <<>> >>
    ELSE <<sort_by_priority(m)[1].action, sort_by_priority(m)>>

\* the button of the dashboard, or any caller: action, fired_rules = run_rules(...)
RunRules ==
    /\ rpc = "ready"
    /\ action' = run_rules(facts, rules)[1]
    /\ matched_rules' = run_rules(facts, rules)[2]
    /\ rpc' = "returned"
    /\ UNCHANGED <<facts, rules, gaVars>>

GAInit(configs) ==
    /\ cfg \in configs
    /\ tape = <<>>
    /\ pos = default_rng(<<>>)
    /\ seeded = TRUE
    /\ pc = "idle"
    /\ population = <<>> /\ fit = <<>> /\ history = <<>> /\ gen = 0
    /\ elites = <<>> /\ new_population = <<>> /\ heap = <<>>
    /\ parent1 = None /\ parent2 = None /\ child1 = None /\ child2 = None
    /\ call = NoCall
    /\ results = <<>>

RulesOff ==
    /\ facts = <<>> /\ rules = <<>> /\ rpc = "off" /\ action = <<>>
    /\ matched_rules = <<>>

Init == GAInit(Configs) /\ RulesOff

Next ==
    \/ CallRunGA
    \/ Generation
    \/ TournamentSelection
    \/ Crossover
    \/ Mutation
    \/ Replace
    \/ Return

Spec == Init /\ [][Next]_vars

InitDet == GAInit(DetConfigs) /\ RulesOff

NextDet == Next \/ Rerun \/ CallAgain

SpecDet == InitDet /\ [][NextDet]_vars

\* q1 as the repository ships it
SourceConfig == Cfg(300, 80, 50, 90, 1, 2, 3)

InitRules ==
    /\ GAInit({SourceConfig})
    /\ rpc = "ready"
    /\ action = <<>>
    /\ matched_rules = <<>>
    /\ \/ rules = DEFAULT_RULES /\ facts \in UIFacts
       \/ rules \in GenRuleLists /\ facts \in GenFacts

NextRules == RunRules

SpecRules == InitRules /\ [][NextRules]_vars

\* ------------------------------------------------------------------ claims

ValidConfig ==
    /\ cfg.POP_SIZE > 0 /\ cfg.GENE_LENGTH > 0 /\ cfg.MAX_GEN > 0
    /\ cfg.PC >= 0 /\ cfg.PC <= 100 /\ cfg.PM >= 0 /\ cfg.PM <= 100
    /\ cfg.ELITE >= 0 /\ cfg.ELITE < cfg.POP_SIZE
    /\ cfg.TOUR_K >= 1 /\ cfg.TOUR_K <= cfg.POP_SIZE

InGeneration == pc \in {"sel1", "sel2", "cross", "mut1", "mut2"}

Complement(b) == [i \in 1..Len(b) |-> 1 - b[i]]

IsPrefix(s, t) == Len(s) <= Len(t) /\ SubSeq(t, 1, Len(s)) = s

LastResult == results[Len(results)]

\* C1: for every configuration with N > 0, L > 0 and 0 <= E < N, at the start
\* of every generation, during it and in the final population, the population
\* holds exactly N genomes of exactly L bits, and a next population is exactly
\* N - E offspring followed by exactly E elites.
C1_PopulationShape ==
    (cfg.POP_SIZE > 0 /\ cfg.GENE_LENGTH > 0 /\ cfg.ELITE >= 0
        /\ cfg.ELITE < cfg.POP_SIZE)
    => /\ (pc = "loop" \/ InGeneration \/ pc = "done")
            => /\ Len(population) = cfg.POP_SIZE
               /\ \A i \in 1..Len(population) : Len(population[i]) = cfg.GENE_LENGTH
       /\ (pc \in {"loop", "done"} /\ gen > 0)
            => /\ Len(new_population) = cfg.POP_SIZE - cfg.ELITE
               /\ Len(elites) = cfg.ELITE
               /\ population =
                     [i \in 1..Len(new_population) |->
                         Deref(population, heap, new_population[i])] \o elites

\* C2 as stated: any two completed runs of run_ga under one configuration and
\* seed return the same history, best genome and fitness, successive calls in
\* one process included.
C2_AnyTwoRunsAgree ==
    \A i, j \in 1..Len(results) :
        /\ results[i].history = results[j].history
        /\ results[i].best = results[j].best
        /\ results[i].fitness = results[j].fitness

\* C2 as amended: any two completed runs that each began on the generator as
\* the module body seeded it return the same history, best genome and fitness.
C2_SeededRunsAgree ==
    \A i, j \in 1..Len(results) :
        (results[i].seeded /\ results[j].seeded)
        => /\ results[i].history = results[j].history
           /\ results[i].best = results[j].best
           /\ results[i].fitness = results[j].fitness

\* two runs, each after the module body ran, in which mutation or crossover
\* made a genome better than the best of the initial population
C2_Witness ==
    /\ Len(results) = 2
    /\ results[1].seeded /\ results[2].seeded
    /\ Len(results[2].history) = cfg.MAX_GEN
    /\ results[2].fitness > results[2].history[1].Best

\* C3: for E >= 1 the best fitness in the history never decreases from one
\* record to the next, the fitness run_ga returns is at least the best fitness
\* of the last record, and a population that replaced another ends with the
\* elites, one of which has the best fitness of the population it replaced.
C3_Elitism ==
    cfg.ELITE >= 1
    => /\ \A i \in 1..(Len(history) - 1) : history[i].Best <= history[i + 1].Best
       /\ (pc = "done" /\ Len(history) > 0)
            => LastResult.fitness >= history[Len(history)].Best
       /\ (pc = "loop" /\ gen > 0)
            => /\ LastSlice(population, cfg.ELITE) = elites
               /\ \E i \in 1..Len(elites) :
                     Sum(elites[i]) = history[Len(history)].Best

\* a finished run of two generations or more whose last offspring are all
\* worse than the elite, which alone keeps the best fitness
C3_Witness ==
    /\ pc = "done"
    /\ cfg.ELITE >= 1
    /\ Len(history) >= 2
    /\ \A i \in 1..(cfg.POP_SIZE - cfg.ELITE) :
          Sum(population[i]) < history[Len(history)].Best
    /\ LastResult.fitness = history[Len(history)].Best

CrossoverShape(strict) ==
    call.op = "crossover"
    => LET L == Len(call.a)
           a == call.a
           b == call.b
       IN  /\ call.crossed = (call.u < cfg.PC)
           /\ cfg.PC = 100 => call.crossed
           /\ cfg.PC = 0 => ~call.crossed
           /\ call.crossed
                => LET p1 == call.cuts[1]
                       p2 == call.cuts[2]
                   IN  /\ 1 <= p1 /\ p2 <= L - 1
                       /\ IF strict THEN p1 < p2 ELSE p1 <= p2
                       /\ call.c1 = SubSeq(a, 1, p1) \o SubSeq(b, p1 + 1, p2)
                                       \o SubSeq(a, p2 + 1, L)
                       /\ call.c2 = SubSeq(b, 1, p1) \o SubSeq(a, p1 + 1, p2)
                                       \o SubSeq(b, p2 + 1, L)
           /\ ~call.crossed => (call.c1 = a /\ call.c2 = b)

\* C4 as stated: on the crossover branch (always when Pc = 1) the cut points
\* are distinct and interior, 1 <= p1 < p2 <= L - 1, and the children are
\* a[0:p1] ++ b[p1:p2] ++ a[p2:L] and b[0:p1] ++ a[p1:p2] ++ b[p2:L]; off it
\* (always when Pc = 0) the children equal the parents.
C4_DistinctCuts == CrossoverShape(TRUE)

\* C4 as amended: the same with 1 <= p1 <= p2 <= L - 1; the two cut points are
\* drawn independently and may coincide, and the children then equal the
\* parents.
C4_Crossover == CrossoverShape(FALSE)

\* a crossover of two different parents at two different cut points that
\* exchanged something
C4_Witness ==
    /\ call.op = "crossover"
    /\ call.crossed
    /\ call.cuts[1] < call.cuts[2]
    /\ call.c1 # call.a
    /\ call.c2 # call.b

HistoryShape ==
    /\ Len(history) <= cfg.MAX_GEN
    /\ \A i \in 1..Len(history) : history[i].Generation = i
    /\ pc = "done"
         => /\ Len(history) = cfg.MAX_GEN
            /\ LastResult.history = history

\* C5: a run that returns has made exactly G generations: its history has G
\* records, record i (0-based) carries generation i + 1, a record once
\* appended is never changed, and the loop goes on to G also when a genome
\* already has the maximum fitness L.
C5_FixedBudget == [](HistoryShape) /\ [][IsPrefix(history, history')]_vars

\* a finished run of two generations or more whose first record already has
\* the maximum fitness
C5_Witness ==
    /\ pc = "done"
    /\ cfg.MAX_GEN >= 2
    /\ Len(history) = cfg.MAX_GEN
    /\ history[1].Best = cfg.GENE_LENGTH

\* C6: tournament_selection on a population of n genomes with 1 <= K <= n
\* draws K pairwise distinct indices of [0, n) and returns the genome at the
\* first drawn index whose fitness is the largest among the drawn; with K = n
\* the genome returned has the largest fitness of the whole population.
C6_Tournament ==
    call.op = "tournament_selection"
    => LET c == call.candidates
           n == Len(call.pop)
           f(i) == Sum(call.pop[c[i] + 1])
       IN  /\ Len(c) = cfg.TOUR_K
           /\ \A i \in 1..Len(c) : c[i] >= 0 /\ c[i] < n
           /\ \A i, j \in 1..Len(c) : i # j => c[i] # c[j]
           /\ \E j \in 1..Len(c) :
                 /\ call.ret = <<"pop", c[j]>>
                 /\ \A i \in 1..Len(c) : f(i) <= f(j)
                 /\ \A i \in 1..(j - 1) : f(i) < f(j)
           /\ cfg.TOUR_K = n
                => \A i \in 1..n :
                      Sum(call.pop[i]) <= Sum(Deref(call.pop, <<>>, call.ret))

\* a tournament whose second drawn index ties the first for the largest
\* fitness, with a different genome in an earlier row
C6_Witness ==
    /\ call.op = "tournament_selection"
    /\ cfg.TOUR_K >= 2
    /\ call.ret = <<"pop", call.candidates[1]>>
    /\ call.candidates[2] < call.candidates[1]
    /\ Sum(call.pop[call.candidates[2] + 1]) = Sum(call.pop[call.candidates[1] + 1])
    /\ call.pop[call.candidates[2] + 1] # call.pop[call.candidates[1] + 1]

\* what the rule at place i of the list requires of the facts
RuleHolds(i) ==
    \A k \in 1..Len(rules[i].conditions) :
        LET c == rules[i].conditions[k] IN
        /\ c[1] \in DOMAIN facts
        /\ \/ c[2] = "==" /\ facts[c[1]] = c[3]
           \/ c[2] = "!=" /\ facts[c[1]] # c[3]
           \/ c[2] = ">"  /\ facts[c[1]] > c[3]
           \/ c[2] = ">=" /\ facts[c[1]] >= c[3]
           \/ c[2] = "<"  /\ facts[c[1]] < c[3]
           \/ c[2] = "<=" /\ facts[c[1]] <= c[3]

\* C7: run_rules returns the fixed default action when no rule matches, and
\* otherwise the action of the matching rule of the highest priority, the one
\* declared first among those of equal highest priority; a rule matches iff
\* all its conditions are true, a condition on a missing field being false.
C7_RuleTable ==
    rpc = "returned"
    => LET M == {i \in 1..Len(rules) : RuleHolds(i)} IN
       /\ Len(matched_rules) = Cardinality(M)
       /\ IF M = {}
          THEN action = NoRuleAction
          ELSE \E i \in M :
                  /\ action = rules[i].action
                  /\ matched_rules[1] = rules[i]
                  /\ \A j \in M : rules[j].priority <= rules[i].priority
                  /\ \A j \in M : rules[j].priority = rules[i].priority => i <= j

\* two different matching rules tie on the highest priority, the first
\* declared wins, and another rule fails on a field the facts do not hold
C7_Witness ==
    /\ rpc = "returned"
    /\ \E i, j \in 1..Len(rules) :
          /\ i < j
          /\ RuleHolds(i) /\ RuleHolds(j)
          /\ rules[i].priority = rules[j].priority
          /\ rules[i].action # rules[j].action
          /\ action = rules[i].action
          /\ \A k \in 1..Len(rules) : RuleHolds(k) => rules[k].priority <= rules[i].priority
    /\ \E k \in 1..Len(rules) :
          \E m \in 1..Len(rules[k].conditions) :
              rules[k].conditions[m][1] \notin DOMAIN facts

\* C8: an invalid configuration is rejected before any generation runs (no
\* population is evaluated, no history record appended, no run completed), and
\* no run under a valid configuration ends in an error.
C8_ConfigRejected ==
    /\ ~ValidConfig => (history = <<>> /\ fit = <<>> /\ pc # "done")
    /\ ValidConfig => pc # "error"

MutationShape(fresh) ==
    call.op = "mutation"
    => LET now == Deref(population, heap, call.arg)
           out == Deref(population, heap, call.ret)
       IN  /\ Len(out) = Len(call.before)
           /\ cfg.PM = 0 => out = call.before
           /\ cfg.PM = 100 => out = Complement(call.before)
           /\ \A i \in 1..Len(out) :
                 (out[i] # call.before[i]) => (call.us[i] < cfg.PM)
           /\ IF fresh
              THEN call.ret # call.arg /\ now = call.before
              ELSE call.ret = call.arg /\ now = out

\* C9 as stated: mutation returns a new genome and leaves its argument with the
\* bits it had before the call, for every Pm; with Pm = 0 the output equals the
\* input and with Pm = 1 it is the input's complement.
C9_InputUnchanged == MutationShape(TRUE)

\* C9 as amended: mutation flips the bits in its argument's own storage and
\* returns that argument: after the call the argument and the result are one
\* genome, equal to the input for Pm = 0 and to its complement for Pm = 1.
C9_MutationInPlace == MutationShape(FALSE)

\* a mutation with Pm = 1 of a genome, which the argument no longer holds
C9_Witness ==
    /\ call.op = "mutation"
    /\ cfg.PM = 100
    /\ Len(call.before) > 0
    /\ Deref(population, heap, call.arg) = Complement(call.before)

\* C10: from the fitness evaluation of a generation until the next population
\* replaces the current one, selection, crossover and mutation change no
\* genome of the current population, so the fitnesses evaluated at the start
\* of the generation are those of the population every selection reads.
C10_StableSnapshot ==
    /\ [](InGeneration => fit = fitness(population))
    /\ [][(InGeneration /\ InGeneration') => population' = population]_vars

\* without crossover, a child that mutation changed is in the offspring pool
\* and the parents' rows are as evaluated
C10_Witness ==
    /\ pc = "sel1"
    /\ call.op = "mutation"
    /\ cfg.PC = 0
    /\ Len(new_population) >= 1
    /\ Deref(population, heap, call.arg) # call.before
    /\ call.before \in {population[i] : i \in 1..Len(population)}

====
